---- MODULE Spec2Model ----
(***************************************************************************)
(* Elevation tile acquisition of the StreetMap landscape importer          *)
(* (Source/StreetMapImporting/GISUtils/Elevation.cpp).                     *)
(*                                                                         *)
(* FCachedElevationFile is one tile: a record of its fields.  Its methods  *)
(* are operators from (tile, NumPendingDownloads, inputs) to the tile and  *)
(* counter they leave behind.  FElevationModel::LoadElevationData is the   *)
(* cooperative loop, one action per loop position; BuildLandscape is the   *)
(* caller.  The HTTP layer, the wall clock and the user are environment    *)
(* actions.                                                                *)
(*                                                                         *)
(* Time is in whole seconds since LoadElevationData was entered.           *)
(* Elevations are integers in units of 1/256 (the decoder's resolution:    *)
(* R*256 + G + B/256 is exact in a float).                                 *)
(***************************************************************************)
EXTENDS Integers, Sequences, FiniteSets, TLC

----------------------------------------------------------------------------
(* Bounds of the model *)

\* tiles of a job whose cache entry or HTTP request can answer
MaxTiles == 2
\* the wall clock stops here
MaxTime == 11
\* the clock of SpecClock advances in steps of ClockStep up to ClockHorizon
ClockStep == 12
ClockHorizon == 72
\* TileWidth / TileHeight of the tile source the acquisition is checked on
SmallTileWidth == 2
SmallTileHeight == 1
\* TileWidth / TileHeight of the tile source the reprojection is checked on: the
\* smallest tile with a pixel that the guard of lines 536-539 lets through
SampledTileWidth == 6
SampledTileHeight == 6
\* BuildSettings.Radius and BuildSettings.QuadSize are whole numbers up to these
MaxRadius == 40
MaxQuadSize == 3
\* the tiles of the job that is reprojected, and the vertices ReprojectData is
\* followed through
SampledJobSize == 2
MaxVertices == 2
\* the weight maps are rasterized on a grid of NumVerticesForRadius =
\* BlendVertices, for up to MaxLayers layers of up to MaxPolygons polygons
BlendVertices == 2
MaxLayers == 3
MaxPolygons == 2

(* Program constants *)

MaxNumPendingDownloads == 10
TimeoutSeconds == 10
ValidBelow == 41768
ElevationOffset == 32768
Sentinel == 32768
MaxQuantized == 65535
FullWeight == 255

\* TNumericLimits<float>::Max() and Lowest(): beyond every decodable value
FloatMax == 256 * 65536
FloatLowest == -FloatMax

Min(a, b) == IF a < b THEN a ELSE b
Max(a, b) == IF a > b THEN a ELSE b

----------------------------------------------------------------------------
VARIABLES
  pc,                   \* position in BuildLandscape / LoadElevationData
  Files,                \* the FCachedElevationFile objects of the job
  FilesToDownload,      \* indices into Files, in insertion order
  FilesDownloaded,      \* indices into Files
  NumFilesToDownload,
  idx,                  \* position of the range-for in FilesToDownload
  Progress,
  NumPendingDownloads,  \* static counter, shared by all jobs
  now,                  \* FDateTime::UtcNow()
  UserCancel,           \* GWarn->ReceivedUserCancel()
  ElevationMin,         \* FElevationModel::ElevationMin
  ElevationMax,
  LoadResult,           \* what LoadElevationData returned
  Landscape,            \* what BuildLandscape returned
  CancelIssued,         \* history: tiles CancelRequest() was called on
  RoundStart,           \* history: FilesToDownload when the range-for was entered
  RoundTicks,           \* history: tiles Tick() was called on in this range-for
  TiledMap,             \* the FTiledMap the FElevationModel was constructed on
  BuildSettings,        \* FStreetMapLandscapeBuildSettings
  Grid,                 \* what GetNumVerticesForRadius returned
  OutElevationData,     \* the height map ReprojectData fills
  Vertex,               \* history: the projection of the last vertex written
  ImportLayers,         \* the weight maps CreateLandscape has added
  WeightData            \* the weight map of the layer that is being rasterized

roundVars == <<RoundStart, RoundTicks>>

landVars ==
  <<TiledMap, BuildSettings, Grid, OutElevationData, Vertex, ImportLayers, WeightData>>

vars == <<pc, Files, FilesToDownload, FilesDownloaded, NumFilesToDownload, idx,
          Progress, NumPendingDownloads, now, UserCancel, ElevationMin,
          ElevationMax, LoadResult, Landscape, CancelIssued, RoundStart, RoundTicks,
          TiledMap, BuildSettings, Grid, OutElevationData, Vertex, ImportLayers,
          WeightData>>

TileWidth == TiledMap.TileWidth
TileHeight == TiledMap.TileHeight

----------------------------------------------------------------------------
(* Raster images as the PNG wrapper reports them *)

\* w * h pixels <<R, G, B>>, all of them valid samples
Image(compressed, w, h, fmt, depth, raw) ==
  [Present |-> TRUE, SetCompressed |-> compressed, Width |-> w, Height |-> h,
   Format |-> fmt, BitDepth |-> depth, GetRaw |-> raw,
   Pixels |-> [k \in 1..(w * h) |-> <<128, k, 0>>]]

GoodImage == Image(TRUE, SmallTileWidth, SmallTileHeight, "RGBA", 8, TRUE)

\* what the server and the cache of the small tile source can hold: a good
\* image, bytes that are no PNG, PNGs of the wrong shape or format, and a PNG whose
\* header parses but whose pixel data cannot be uncompressed
Images ==
  { GoodImage,
    Image(FALSE, 0, 0, "Invalid", 0, FALSE),
    Image(TRUE, SmallTileWidth + 1, SmallTileHeight, "RGBA", 8, TRUE),
    Image(TRUE, SmallTileWidth, SmallTileHeight + 1, "RGBA", 8, TRUE),
    Image(TRUE, SmallTileWidth, SmallTileHeight, "Gray", 8, TRUE),
    Image(TRUE, SmallTileWidth, SmallTileHeight, "RGBA", 16, TRUE),
    Image(TRUE, SmallTileWidth, SmallTileHeight, "RGBA", 8, FALSE) }

\* pixels at and next to the two ends of the valid range: 32768 (sea level), 0,
\* 1/256, 41768 - 1/256 and 41768
ElevPixels ==
  {<<128, 0, 0>>, <<0, 0, 0>>, <<0, 0, 1>>, <<163, 39, 255>>, <<163, 40, 0>>}

\* a good image of w * h pixels, p and q in turn
PatternImage(w, h, p, q) ==
  [Present |-> TRUE, SetCompressed |-> TRUE, Width |-> w, Height |-> h,
   Format |-> "RGBA", BitDepth |-> 8, GetRaw |-> TRUE,
   Pixels |-> [k \in 1..(w * h) |-> IF k % 2 = 1 THEN p ELSE q]]

\* the lower of the two pixels first
ElevImages ==
  {PatternImage(SmallTileWidth, SmallTileHeight, pq[1], pq[2]) :
     pq \in {xy \in ElevPixels \X ElevPixels :
               xy[1][1] * 65536 + xy[1][2] * 256 + xy[1][3]
                 <= xy[2][1] * 65536 + xy[2][2] * 256 + xy[2][3]}}

\* no bytes at all: a cache miss, an invalid FHttpResponsePtr
Absent ==
  [Present |-> FALSE, SetCompressed |-> FALSE, Width |-> 0, Height |-> 0,
   Format |-> "Invalid", BitDepth |-> 0, GetRaw |-> FALSE, Pixels |-> <<>>]

NoFile == Absent
NullResponse == Absent

\* what LoadFileToArray can find in the cache, what GetResponse can return
CacheContents == {NoFile} \cup Images
Responses == {NullResponse} \cup Images

----------------------------------------------------------------------------
(* FCachedElevationFile *)

\* the constructor; TimeSpan is not in its initializer list and is taken as the
\* zero span of a default-constructed FTimespan
NewFile(t) ==
  [WasInitialized |-> FALSE, WasDownloadSuccessful |-> FALSE, Failed |-> FALSE,
   StartTime |-> t, TimeSpan |-> 0,
   HttpRequest |-> "Null", Response |-> NullResponse, RequestCancelled |-> FALSE,
   Elevation |-> <<>>, ElevationMin |-> FloatMax, ElevationMax |-> FloatLowest,
   Saved |-> FALSE]

\* FTimespan::GetSeconds(): the seconds component of the span (0..59), not its
\* total (that is GetTotalSeconds)
GetSeconds(span) == span % 60

HasFinished(f) == f.WasDownloadSuccessful \/ f.Failed

Succeeded(f) == f.WasDownloadSuccessful

\* Data[0] * 256.0f + Data[1] + Data[2] / 256.0f, in units of 1/256
PixelValue(p) == p[1] * 65536 + p[2] * 256 + p[3]

IsValid(v) == v > 0 /\ v < ValidBelow * 256

\* a decoder that leaves out the offset of line 117
DecodePixelNoOffset(p) == PixelValue(p)

DecodePixel(p) ==
  IF IsValid(PixelValue(p)) THEN PixelValue(p) - ElevationOffset * 256
  ELSE PixelValue(p)

\* a tile's min/max taken over every sample
AllSamples(px) == {DecodePixel(px[k]) : k \in DOMAIN px}

ValidSamples(px) ==
  {DecodePixel(px[k]) : k \in {j \in DOMAIN px : IsValid(PixelValue(px[j]))}}

SetMin(S, a) == IF S = {} THEN a ELSE Min(a, CHOOSE m \in S : \A x \in S : m <= x)
SetMax(S, a) == IF S = {} THEN a ELSE Max(a, CHOOSE m \in S : \A x \in S : m >= x)

\* UnpackElevation testing the width alone at line 90
UnpackElevationWidthOnly(f, RawData) ==
  IF ~RawData.SetCompressed
  THEN [ret |-> FALSE, file |-> f]
  ELSE IF RawData.Width # TileWidth
  THEN [ret |-> FALSE, file |-> f]
  ELSE IF RawData.Format # "RGBA" \/ RawData.BitDepth # 8
  THEN [ret |-> FALSE, file |-> f]
  ELSE IF RawData.GetRaw
  THEN [ret |-> TRUE,
        file |-> [f EXCEPT
          !.Elevation = [k \in 1..(RawData.Width * RawData.Height) |->
                           DecodePixel(RawData.Pixels[k])],
          !.ElevationMin = SetMin(ValidSamples(RawData.Pixels), f.ElevationMin),
          !.ElevationMax = SetMax(ValidSamples(RawData.Pixels), f.ElevationMax)]]
  ELSE [ret |-> TRUE, file |-> f]

UnpackElevation(f, RawData) ==
  IF ~RawData.SetCompressed
  THEN [ret |-> FALSE, file |-> f]
  ELSE IF RawData.Width # TileWidth \/ RawData.Height # TileHeight
  THEN [ret |-> FALSE, file |-> f]
  ELSE IF RawData.Format # "RGBA" \/ RawData.BitDepth # 8
  THEN [ret |-> FALSE, file |-> f]
  ELSE IF RawData.GetRaw
  THEN [ret |-> TRUE,
        file |-> [f EXCEPT
          !.Elevation = [k \in 1..(RawData.Width * RawData.Height) |->
                           DecodePixel(RawData.Pixels[k])],
          !.ElevationMin = SetMin(ValidSamples(RawData.Pixels), f.ElevationMin),
          !.ElevationMax = SetMax(ValidSamples(RawData.Pixels), f.ElevationMax)]]
  ELSE [ret |-> TRUE, file |-> f]

\* OnDownloadSucceeded without the return of line 146
OnDownloadSucceededNoReturn(f, num, Response) ==
  IF Response.Present
  THEN LET u == UnpackElevation(f, Response) IN
       [file |-> [u.file EXCEPT !.Failed = ~u.ret, !.Saved = TRUE,
                                !.WasDownloadSuccessful = TRUE],
        num |-> num - 1]
  ELSE [file |-> [f EXCEPT !.WasDownloadSuccessful = TRUE], num |-> num - 1]

OnDownloadSucceeded(f, num, Response) ==
  IF Response.Present
  THEN LET u == UnpackElevation(f, Response) IN
       IF ~u.ret
       THEN [file |-> [u.file EXCEPT !.Failed = TRUE], num |-> num - 1]
       ELSE [file |-> [u.file EXCEPT !.Saved = TRUE, !.WasDownloadSuccessful = TRUE],
             num |-> num - 1]
  ELSE [file |-> [f EXCEPT !.WasDownloadSuccessful = TRUE], num |-> num - 1]

\* started: what HttpRequest->ProcessRequest() returns
DownloadFile(f, num, started) ==
  IF started
  THEN [file |-> [f EXCEPT !.HttpRequest = "Processing"], num |-> num + 1]
  ELSE [file |-> [f EXCEPT !.HttpRequest = "NotStarted", !.Failed = TRUE], num |-> num]

\* cached: what the cache file holds
Initialize(f, num, t, cached, started) ==
  LET g == [f EXCEPT !.WasInitialized = TRUE, !.StartTime = t]
      u == UnpackElevation(g, cached)
  IN IF cached.Present /\ u.ret
     THEN [file |-> [u.file EXCEPT !.WasDownloadSuccessful = TRUE], num |-> num]
     ELSE DownloadFile(u.file, num, started)

\* CancelRequest without line 218
CancelRequestNoFlag(f, num) ==
  IF f.HttpRequest # "Null"
  THEN [file |-> [f EXCEPT !.RequestCancelled = TRUE], num |-> num - 1]
  ELSE [file |-> f, num |-> num]

CancelRequest(f, num) ==
  IF f.HttpRequest # "Null"
  THEN [file |-> [f EXCEPT !.Failed = TRUE, !.RequestCancelled = TRUE], num |-> num - 1]
  ELSE [file |-> [f EXCEPT !.Failed = TRUE], num |-> num]

\* Tick() from line 238 on: the tile is initialized.
\* response: what HttpRequest->GetResponse() returns for a succeeded request
TickInitialized(f, num, t, response) ==
  IF f.WasDownloadSuccessful \/ f.Failed
  THEN [file |-> f, num |-> num]
  ELSE IF GetSeconds(f.TimeSpan) > TimeoutSeconds
  THEN [file |-> [f EXCEPT !.Failed = TRUE, !.RequestCancelled = TRUE], num |-> num - 1]
  ELSE LET g == [f EXCEPT !.TimeSpan = t - f.StartTime] IN
       IF g.HttpRequest \in {"Failed", "Failed_ConnectionError"}
       THEN [file |-> [g EXCEPT !.Failed = TRUE, !.RequestCancelled = TRUE],
             num |-> num - 1]
       ELSE IF g.HttpRequest = "Succeeded"
       THEN OnDownloadSucceeded([g EXCEPT !.Response = response], num, response)
       ELSE [file |-> g, num |-> num]

\* Tick without the test of line 230
TickUncapped(f, num, t, cached, started, response) ==
  IF ~f.WasInitialized
  THEN LET s == Initialize(f, num, t, cached, started) IN
       TickInitialized(s.file, s.num, t, response)
  ELSE TickInitialized(f, num, t, response)

Tick(f, num, t, cached, started, response) ==
  IF ~f.WasInitialized /\ num >= MaxNumPendingDownloads
  THEN [file |-> f, num |-> num]
  ELSE IF ~f.WasInitialized
  THEN LET s == Initialize(f, num, t, cached, started) IN
       TickInitialized(s.file, s.num, t, response)
  ELSE TickInitialized(f, num, t, response)

----------------------------------------------------------------------------
(* The acquisition states of the specification, read off the tile's fields *)

State(i) ==
  LET f == Files[i] IN
  IF f.WasDownloadSuccessful THEN "Decoded"
  ELSE IF f.Failed THEN (IF i \in CancelIssued THEN "Cancelled" ELSE "Failed")
  ELSE IF f.WasInitialized THEN "Downloading"
  ELSE "NotStarted"

----------------------------------------------------------------------------
(* FElevationModel::LoadElevationData and BuildLandscape *)

\* the requests and cache entries of tiles beyond MaxTiles never answer
Answers(i) == i <= MaxTiles

JobSizes == 1..MaxTiles

PoolSize == MaxNumPendingDownloads + 1

TimeSteps == {TimeoutSeconds + 1}

ClockSteps == {ClockStep}

Running == pc \in {"While", "For", "EndFor"}

RemoveFile(list, i) == SelectSeq(list, LAMBDA j : j # i)

\* the failure branch without its inner loop
CancelNone(files, num, list) == [files |-> files, num |-> num]

\* the inner range-for of lines 393-396 over what is left of FilesToDownload
RECURSIVE CancelAll(_, _, _)
CancelAll(files, num, list) ==
  IF list = <<>> THEN [files |-> files, num |-> num]
  ELSE LET c == CancelRequest(files[Head(list)], num) IN
       CancelAll([files EXCEPT ![Head(list)] = c.file], c.num, Tail(list))

Range(list) == {list[k] : k \in DOMAIN list}

\* a range-for that walks the array from its end
CurrentFromEnd(list, k) == list[Len(list) + 1 - k]

\* the element the range-for of line 374 is at in its k-th iteration
Current(list, k) == list[k]

\* the landscape phase has not been entered
NoGrid == [Size |-> 0, OutSubsectionSizeQuads |-> 0, Computed |-> FALSE, Trapped |-> FALSE]

NoSettings == [Radius |-> 0, QuadSize |-> 0, Layers |-> <<>>]

NoVertex ==
  [Valid |-> FALSE, TileXY |-> 0, PixelXY |-> <<0, 0>>, Sampled |-> FALSE,
   Defined |-> TRUE]

SmallTiles == [TileWidth |-> SmallTileWidth, TileHeight |-> SmallTileHeight]

LandscapeIdle ==
  /\ BuildSettings = NoSettings
  /\ Grid = NoGrid
  /\ OutElevationData = <<>>
  /\ Vertex = NoVertex
  /\ ImportLayers = <<>>
  /\ WeightData = <<>>

\* no job is running
NoJob ==
  /\ Files = <<>>
  /\ FilesToDownload = <<>>
  /\ FilesDownloaded = <<>>
  /\ NumFilesToDownload = 0
  /\ idx = 1
  /\ Progress = 0
  /\ NumPendingDownloads = 0
  /\ now = 0
  /\ UserCancel = FALSE
  /\ ElevationMin = FloatMax
  /\ ElevationMax = FloatLowest
  /\ LoadResult = FALSE
  /\ Landscape = "none"
  /\ CancelIssued = {}
  /\ RoundStart = <<>>
  /\ RoundTicks = <<>>

Init ==
  /\ TiledMap = SmallTiles
  /\ pc = "Idle"
  /\ NoJob
  /\ LandscapeIdle

\* BuildLandscape is entered: the FElevationModel is constructed and
\* LoadElevationData collects the tiles (step 1.)
StartJob(n, boundsValid) ==
  /\ pc = "Idle"
  /\ Files' = IF boundsValid THEN [i \in 1..n |-> NewFile(0)] ELSE <<>>
  /\ FilesToDownload' = IF boundsValid THEN [i \in 1..n |-> i] ELSE <<>>
  /\ FilesDownloaded' = <<>>
  /\ NumFilesToDownload' = IF boundsValid THEN n ELSE 0
  /\ idx' = 1
  /\ Progress' = 0
  /\ now' = 0
  /\ UserCancel' = FALSE
  /\ ElevationMin' = FloatMax
  /\ ElevationMax' = FloatLowest
  /\ LoadResult' = FALSE
  /\ Landscape' = "none"
  /\ CancelIssued' = {}
  /\ pc' = IF boundsValid THEN "While" ELSE "LoadReturned"
  /\ UNCHANGED <<NumPendingDownloads, roundVars, landVars>>

\* the while condition, the user-cancel check and the entry of the range-for
While ==
  /\ pc = "While"
  /\ IF FilesToDownload = <<>> \/ UserCancel
     THEN pc' = "AfterWhile" /\ UNCHANGED <<idx, Progress, roundVars>>
     ELSE /\ pc' = "For" /\ idx' = 1 /\ Progress' = 0
          /\ RoundStart' = FilesToDownload /\ RoundTicks' = <<>>
  /\ UNCHANGED <<Files, FilesToDownload, FilesDownloaded, NumFilesToDownload,
                 NumPendingDownloads, now, UserCancel, ElevationMin, ElevationMax,
                 LoadResult, Landscape, CancelIssued, landVars>>

\* one iteration of the range-for: lines 376-400
ForStep(cached, started, response) ==
  /\ pc = "For"
  /\ LET i == Current(FilesToDownload, idx)
         r == Tick(Files[i], NumPendingDownloads, now, cached, started, response)
         rest == RemoveFile(FilesToDownload, i)
         ticked == [Files EXCEPT ![i] = r.file]
     IN IF HasFinished(r.file)
        THEN /\ Progress' = 1
             /\ pc' = "EndFor"
             /\ idx' = idx
             /\ IF Succeeded(r.file)
                THEN /\ Files' = ticked
                     /\ FilesToDownload' = rest
                     /\ FilesDownloaded' = Append(FilesDownloaded, i)
                     /\ ElevationMin' = Min(ElevationMin, r.file.ElevationMin)
                     /\ ElevationMax' = Max(ElevationMax, r.file.ElevationMax)
                     /\ NumPendingDownloads' = r.num
                     /\ UNCHANGED CancelIssued
                ELSE LET c == CancelAll(ticked, r.num, rest) IN
                     /\ Files' = c.files
                     /\ NumPendingDownloads' = c.num
                     /\ FilesToDownload' = <<>>
                     /\ CancelIssued' = CancelIssued \cup Range(rest)
                     /\ UNCHANGED <<FilesDownloaded, ElevationMin, ElevationMax>>
        ELSE /\ Files' = ticked
             /\ NumPendingDownloads' = r.num
             /\ IF idx < Len(FilesToDownload)
                THEN idx' = idx + 1 /\ pc' = "For"
                ELSE idx' = idx /\ pc' = "EndFor"
             /\ UNCHANGED <<FilesToDownload, FilesDownloaded, Progress, ElevationMin,
                            ElevationMax, CancelIssued>>
  /\ RoundTicks' = Append(RoundTicks, Current(FilesToDownload, idx))
  /\ UNCHANGED <<NumFilesToDownload, now, UserCancel, LoadResult, Landscape,
                 RoundStart, landVars>>

\* the inputs of one iteration: the cache file and ProcessRequest's result are
\* read when the tile is initialized, the response when its request succeeded
ForLoopOn(caches, responses) ==
  /\ pc = "For"
  /\ LET f == Files[Current(FilesToDownload, idx)] IN
     IF ~f.WasInitialized
     THEN IF NumPendingDownloads < MaxNumPendingDownloads
             /\ Answers(Current(FilesToDownload, idx))
          THEN \E cached \in caches, started \in BOOLEAN :
                 ForStep(cached, started, NullResponse)
          ELSE ForStep(NoFile, TRUE, NullResponse)
     ELSE IF f.HttpRequest = "Succeeded"
          THEN \E response \in responses : ForStep(NoFile, TRUE, response)
          ELSE ForStep(NoFile, TRUE, NullResponse)

ForLoop == ForLoopOn(CacheContents, Responses)

\* lines 403-411: the progress frame, and the sleep of a round without progress
EndFor ==
  /\ pc = "EndFor"
  /\ pc' = "While"
  /\ RoundStart' = <<>>
  /\ RoundTicks' = <<>>
  /\ UNCHANGED <<Files, FilesToDownload, FilesDownloaded, NumFilesToDownload, idx,
                 Progress, NumPendingDownloads, now, UserCancel, ElevationMin,
                 ElevationMax, LoadResult, Landscape, CancelIssued, landVars>>

\* a job counted as loaded as soon as one tile was
LoadedAny(numDownloaded, numToDownload) == numDownloaded > 0 \/ numToDownload = 0

\* the test of line 414, negated
Loaded(numDownloaded, numToDownload) == ~(numDownloaded < numToDownload)

\* lines 414-420
ReturnLoad ==
  /\ pc = "AfterWhile"
  /\ LoadResult' = Loaded(Len(FilesDownloaded), NumFilesToDownload)
  /\ pc' = "LoadReturned"
  /\ UNCHANGED <<Files, FilesToDownload, FilesDownloaded, NumFilesToDownload, idx,
                 Progress, NumPendingDownloads, now, UserCancel, ElevationMin,
                 ElevationMax, Landscape, CancelIssued, roundVars, landVars>>

\* BuildLandscape returns: the FElevationModel and its tiles are destroyed
ReturnBuild(result) ==
  /\ Landscape' = result
  /\ pc' = "Idle"
  /\ Files' = <<>>
  /\ FilesToDownload' = <<>>
  /\ FilesDownloaded' = <<>>
  /\ NumFilesToDownload' = 0
  /\ idx' = 1
  /\ Progress' = 0
  /\ now' = 0
  /\ UserCancel' = FALSE
  /\ ElevationMin' = FloatMax
  /\ ElevationMax' = FloatLowest
  /\ LoadResult' = FALSE
  /\ CancelIssued' = {}
  /\ UNCHANGED <<NumPendingDownloads, roundVars, landVars>>

Continue(next) ==
  /\ pc' = next
  /\ UNCHANGED <<Files, FilesToDownload, FilesDownloaded, NumFilesToDownload, idx,
                 Progress, NumPendingDownloads, now, UserCancel, ElevationMin,
                 ElevationMax, LoadResult, Landscape, CancelIssued, roundVars,
                 landVars>>

\* BuildLandscape, lines 805-808
AfterLoad ==
  /\ pc = "LoadReturned"
  /\ IF LoadResult THEN Continue("ReprojectData") ELSE ReturnBuild("nullptr")

\* BuildLandscape, lines 810-814: ReprojectData returns false on a user cancel
ReprojectData ==
  /\ pc = "ReprojectData"
  /\ IF UserCancel THEN ReturnBuild("nullptr") ELSE Continue("CreateLandscape")

\* BuildLandscape, line 816: CreateLandscape polls the user cancel after each
\* polygon of a layer
CreateLandscape(polygons) ==
  /\ pc = "CreateLandscape"
  /\ IF polygons /\ UserCancel THEN ReturnBuild("nullptr") ELSE ReturnBuild("landscape")

----------------------------------------------------------------------------
(* Environment *)

\* the HTTP manager finishes a request (FHttpManager::Tick at the loop head)
HttpFinish(i, status) ==
  /\ pc = "While"
  /\ i \in DOMAIN Files
  /\ Answers(i)
  /\ Files[i].HttpRequest = "Processing"
  /\ ~HasFinished(Files[i])
  /\ Files' = [Files EXCEPT ![i].HttpRequest = status]
  /\ UNCHANGED <<pc, FilesToDownload, FilesDownloaded, NumFilesToDownload, idx,
                 Progress, NumPendingDownloads, now, UserCancel, ElevationMin,
                 ElevationMax, LoadResult, Landscape, CancelIssued, roundVars,
                 landVars>>

HttpSucceeds == \E i \in 1..MaxTiles : HttpFinish(i, "Succeeded")

HttpFails ==
  \E i \in 1..MaxTiles, s \in {"Failed", "Failed_ConnectionError"} : HttpFinish(i, s)

AdvanceTime(steps, horizon) ==
  /\ Running
  /\ \E d \in steps : now + d <= horizon /\ now' = now + d
  /\ UNCHANGED <<pc, Files, FilesToDownload, FilesDownloaded, NumFilesToDownload, idx,
                 Progress, NumPendingDownloads, UserCancel, ElevationMin,
                 ElevationMax, LoadResult, Landscape, CancelIssued, roundVars,
                 landVars>>

UserCancels ==
  /\ pc \in {"While", "For", "EndFor", "ReprojectData", "CreateLandscape"}
  /\ ~UserCancel
  /\ UserCancel' = TRUE
  /\ UNCHANGED <<pc, Files, FilesToDownload, FilesDownloaded, NumFilesToDownload, idx,
                 Progress, NumPendingDownloads, now, ElevationMin, ElevationMax,
                 LoadResult, Landscape, CancelIssued, roundVars, landVars>>

Next ==
  \/ \E n \in JobSizes, b \in BOOLEAN : StartJob(n, b)
  \/ While
  \/ ForLoop
  \/ EndFor
  \/ ReturnLoad
  \/ AfterLoad
  \/ ReprojectData
  \/ \E p \in BOOLEAN : CreateLandscape(p)
  \/ HttpSucceeds
  \/ HttpFails
  \/ UserCancels
  \/ AdvanceTime(TimeSteps, MaxTime)

Spec == Init /\ [][Next]_vars

\* jobs of one tile more than there are download slots, the clock standing still
NextPool ==
  \/ \E b \in BOOLEAN : StartJob(PoolSize, b)
  \/ While
  \/ ForLoop
  \/ EndFor
  \/ ReturnLoad
  \/ AfterLoad
  \/ HttpSucceeds
  \/ HttpFails
  \/ UserCancels

SpecPool == Init /\ [][NextPool]_vars

\* jobs the user lets run, on a clock that passes the minute
NextClock ==
  \/ \E n \in JobSizes, b \in BOOLEAN : StartJob(n, b)
  \/ While
  \/ ForLoop
  \/ EndFor
  \/ ReturnLoad
  \/ AfterLoad
  \/ ReprojectData
  \/ \E p \in BOOLEAN : CreateLandscape(p)
  \/ HttpSucceeds
  \/ HttpFails
  \/ AdvanceTime(ClockSteps, ClockHorizon)

SpecClock == Init /\ [][NextClock]_vars

\* jobs whose tiles are all downloaded, the answers being images with samples at
\* the ends of the valid range
NextElev ==
  \/ \E n \in JobSizes, b \in BOOLEAN : StartJob(n, b)
  \/ While
  \/ ForLoopOn({NoFile}, ElevImages)
  \/ EndFor
  \/ ReturnLoad
  \/ AfterLoad
  \/ ReprojectData
  \/ \E p \in BOOLEAN : CreateLandscape(p)
  \/ HttpSucceeds

SpecElev == Init /\ [][NextElev]_vars

----------------------------------------------------------------------------
(* GetNumVerticesForRadius *)

\* int32 division: the quotient is truncated towards zero
Quotient(a, b) ==
  IF (a >= 0) = (b > 0) THEN (IF a >= 0 THEN a ELSE -a) \div (IF b > 0 THEN b ELSE -b)
  ELSE -((IF a >= 0 THEN a ELSE -a) \div (IF b > 0 THEN b ELSE -b))

\* FMath::RoundToInt(a / b) for whole a >= 0 and b > 0: floor(a / b + 0.5)
RoundToIntOfRatio(a, b) == (2 * a + b) \div (2 * b)

RECURSIVE PowerOfTwoFrom(_, _)
PowerOfTwoFrom(p, n) == IF p >= n THEN p ELSE PowerOfTwoFrom(2 * p, n)

\* FMath::RoundUpToPowerOfTwo: 1 << CeilLogTwo(n), which is 1 for n = 0
RoundUpToPowerOfTwo(n) == PowerOfTwoFrom(1, n)

\* FMath::DivideAndRoundUp, for a divisor that is not 0
DivideAndRoundUp(Dividend, Divisor) == Quotient(Dividend + Divisor - 1, Divisor)

\* line 292
SubsectionSize(Size) == RoundUpToPowerOfTwo(Size) \div 16 - 1

\* what a call can return.  The division of line 293 by a sub-section size of 0
\* is undefined: the call traps, or the quotient is 0 (a target whose integer
\* division does not trap)
GetNumVerticesForRadius(Settings) ==
  LET Size == RoundToIntOfRatio(Settings.Radius, Settings.QuadSize)
      Sub == SubsectionSize(Size)
  IN IF Sub = 0
     THEN {[Size |-> 0, OutSubsectionSizeQuads |-> Sub, Computed |-> TRUE, Trapped |-> t] :
             t \in BOOLEAN}
     ELSE {[Size |-> DivideAndRoundUp(Size, Sub) * Sub, OutSubsectionSizeQuads |-> Sub,
            Computed |-> TRUE, Trapped |-> FALSE]}

GridSettings ==
  [Radius : 1..MaxRadius, QuadSize : 1..MaxQuadSize, Layers : {<<>>}]

InitGrid ==
  /\ TiledMap = SmallTiles
  /\ pc = "GetNumVerticesForRadius"
  /\ NoJob
  /\ BuildSettings \in GridSettings
  /\ Grid = NoGrid
  /\ OutElevationData = <<>>
  /\ Vertex = NoVertex
  /\ ImportLayers = <<>>
  /\ WeightData = <<>>

CallGetNumVerticesForRadius ==
  /\ pc = "GetNumVerticesForRadius"
  /\ Grid' \in GetNumVerticesForRadius(BuildSettings)
  /\ pc' = "GridReturned"
  /\ UNCHANGED <<Files, FilesToDownload, FilesDownloaded, NumFilesToDownload, idx,
                 Progress, NumPendingDownloads, now, UserCancel, ElevationMin,
                 ElevationMax, LoadResult, Landscape, CancelIssued, roundVars,
                 TiledMap, BuildSettings, OutElevationData, Vertex, ImportLayers,
                 WeightData>>

NextGrid == CallGetNumVerticesForRadius

SpecGrid == InitGrid /\ [][NextGrid]_vars

----------------------------------------------------------------------------
(* FElevationModel::ReprojectData *)

SampledTiles == [TileWidth |-> SampledTileWidth, TileHeight |-> SampledTileHeight]

\* tiles of one elevation, of two elevations in turn, and of an elevation and
\* no-data pixels in turn; the elevations are 1/256 and 2/256 above sea level
SampledPatterns ==
  { <<(<<128, 0, 1>>), (<<128, 0, 1>>)>>,
    <<(<<128, 0, 2>>), (<<128, 0, 2>>)>>,
    <<(<<128, 0, 1>>), (<<128, 0, 2>>)>>,
    <<(<<128, 0, 1>>), (<<0, 0, 0>>)>> }

SampledImages ==
  {PatternImage(SampledTileWidth, SampledTileHeight, pq[1], pq[2]) : pq \in SampledPatterns}

\* the tile a download answered with img leaves in FilesDownloaded
DownloadedTile(img) ==
  LET s == Initialize(NewFile(0), 0, 0, NoFile, TRUE)
      g == [s.file EXCEPT !.HttpRequest = "Succeeded", !.Response = img]
  IN TickInitialized(g, s.num, 0, img).file

\* the 13 taps of lines 456-460
Taps ==
  <<                               (<<0, -2>>),
                     (<<-1, -1>>), (<<0, -1>>), (<<1, -1>>),
       (<<-2, 0>>),  (<<-1, 0>>),  (<<0, 0>>),  (<<1, 0>>),  (<<2, 0>>),
                     (<<-1, 1>>),  (<<0, 1>>),  (<<1, 1>>),
                                   (<<0, 2>>) >>

\* EvalLanczos<3> at the distance of a tap from a whole-pixel location, in units
\* of 1/48: 1 at distance 0, -0.1459 (-7/48) at distance sqrt(2), and less than
\* 1e-7 in magnitude (0) at the distances 1 and 2
LanczosWeight(Tap) ==
  IF Tap = <<0, 0>> THEN 48
  ELSE IF Tap[1] # 0 /\ Tap[2] # 0 THEN -7
  ELSE 0

\* the zero-based index of line 480, as an index into a sequence
TapIndex(DataWidth, PixelXY, Tap) ==
  DataWidth * (PixelXY[2] + Tap[2]) + PixelXY[1] + Tap[1] + 1

RECURSIVE SumTaps(_, _, _, _)
SumTaps(ElevationData, DataWidth, PixelXY, k) ==
  IF k = 0 THEN [ElevationValue |-> 0, LanczosWeightSum |-> 0]
  ELSE LET rest == SumTaps(ElevationData, DataWidth, PixelXY, k - 1)
           w == LanczosWeight(Taps[k])
       IN [ElevationValue |->
             rest.ElevationValue + ElevationData[TapIndex(DataWidth, PixelXY, Taps[k])] * w,
           LanczosWeightSum |-> rest.LanczosWeightSum + w]

\* the sample at a whole-pixel location, as the fraction
\* ElevationValue / LanczosWeightSum of line 489
SampleElevationLanczos(ElevationData, DataWidth, PixelXY) ==
  SumTaps(ElevationData, DataWidth, PixelXY, Len(Taps))

\* a guard that leaves one pixel at the left edge
SupportedFromOne(PixelXY) ==
  /\ PixelXY[1] >= 1
  /\ PixelXY[2] >= 2
  /\ PixelXY[1] < TileWidth - 3
  /\ PixelXY[2] < TileHeight - 3

\* a guard that leaves two pixels at each edge
SupportedSymmetric(PixelXY) ==
  /\ PixelXY[1] >= 2
  /\ PixelXY[2] >= 2
  /\ PixelXY[1] < TileWidth - 2
  /\ PixelXY[2] < TileHeight - 2

\* the guard of lines 536-539
Supported(PixelXY) ==
  /\ PixelXY[1] >= 2
  /\ PixelXY[2] >= 2
  /\ PixelXY[1] < TileWidth - 3
  /\ PixelXY[2] < TileHeight - 3

\* lines 511-512 and 542-544: what the cell can be given for a sample.
\* ElevationRange = 0 makes ElevationScale infinite and the scaled value infinite
\* or not a number, whose conversion to an integer is undefined: the two ends of
\* the 16-bit range stand for its outcomes.  With no valid sample in the job
\* ElevationRange is -infinity, ElevationScale is -0 and the scaled value is 0.
Quantize(Sample, RangeMin, RangeMax) ==
  LET ElevationRange == RangeMax - RangeMin
      d == Sample.LanczosWeightSum
  IN IF ElevationRange = 0
     THEN {[Value |-> v, Defined |-> FALSE] : v \in {0, MaxQuantized}}
     ELSE IF ElevationRange < 0
     THEN {[Value |-> 0, Defined |-> TRUE]}
     ELSE {[Value |->
              ((2 * (Sample.ElevationValue - d * RangeMin) * MaxQuantized
                  + d * ElevationRange) \div (2 * d * ElevationRange)) % (MaxQuantized + 1),
            Defined |-> TRUE]}

\* whole-pixel locations of a tile: its row 2, its column 2 and its diagonal
PixelLocations ==
  {xy \in (0..(TileWidth - 1)) \X (0..(TileHeight - 1)) :
     xy[1] = 2 \/ xy[2] = 2 \/ xy[1] = xy[2]}

\* LoadElevationData has returned true for a job of SampledJobSize downloaded
\* tiles and ReprojectData is at its first vertex
InitReproject ==
  /\ TiledMap = SampledTiles
  /\ pc = "ReprojectRows"
  /\ Files \in {[i \in 1..SampledJobSize |-> DownloadedTile(imgs[i])] :
                  imgs \in [1..SampledJobSize -> SampledImages]}
  /\ FilesToDownload = <<>>
  /\ FilesDownloaded = [i \in 1..SampledJobSize |-> i]
  /\ NumFilesToDownload = SampledJobSize
  /\ idx = 1
  /\ Progress = 1
  /\ NumPendingDownloads = 0
  /\ now = 0
  /\ UserCancel = FALSE
  /\ ElevationMin = SetMin({Files[i].ElevationMin : i \in DOMAIN Files}, FloatMax)
  /\ ElevationMax = SetMax({Files[i].ElevationMax : i \in DOMAIN Files}, FloatLowest)
  /\ LoadResult = TRUE
  /\ Landscape = "none"
  /\ CancelIssued = {}
  /\ RoundStart = <<>>
  /\ RoundTicks = <<>>
  /\ LandscapeIdle

\* one iteration of the vertex loop, lines 523-548.
\* valid: what SRS.ToEPSG3857 returns; tile, PixelXY: what GetTileXY and GetTile
\* return for the vertex
ReprojectVertex(valid, tile, PixelXY) ==
  /\ pc = "ReprojectRows"
  /\ Len(OutElevationData) < MaxVertices
  /\ IF valid /\ Supported(PixelXY)
     THEN \E q \in Quantize(SampleElevationLanczos(Files[tile].Elevation, TileWidth,
                                                    PixelXY),
                             ElevationMin, ElevationMax) :
            /\ OutElevationData' = Append(OutElevationData, q.Value)
            /\ Vertex' = [Valid |-> TRUE, TileXY |-> tile, PixelXY |-> PixelXY,
                          Sampled |-> TRUE, Defined |-> q.Defined]
     ELSE /\ OutElevationData' = Append(OutElevationData, Sentinel)
          /\ Vertex' = IF valid
                       THEN [Valid |-> TRUE, TileXY |-> tile, PixelXY |-> PixelXY,
                             Sampled |-> FALSE, Defined |-> TRUE]
                       ELSE NoVertex
  /\ UNCHANGED <<pc, Files, FilesToDownload, FilesDownloaded, NumFilesToDownload, idx,
                 Progress, NumPendingDownloads, now, UserCancel, ElevationMin,
                 ElevationMax, LoadResult, Landscape, CancelIssued, roundVars,
                 TiledMap, BuildSettings, Grid, ImportLayers, WeightData>>

NextReproject ==
  \E valid \in BOOLEAN, tile \in DOMAIN Files, PixelXY \in PixelLocations :
    ReprojectVertex(valid, tile, PixelXY)

SpecReproject == InitReproject /\ [][NextReproject]_vars

----------------------------------------------------------------------------
(* CreateLandscape: the blend weights *)

\* line 726, as an index into a sequence
PixelIndex(X, Y, NumVerticesForRadius) ==
  (Y + NumVerticesForRadius) * (2 * NumVerticesForRadius) + X + NumVerticesForRadius + 1

\* a polygon as the rasterizer sees it: the bounds of lines 696-709 in vertex
\* space, and what ComputeSquareDistance answers for the vertices in them, the
\* same for each: IsInside, and Sqrt(SquareDistance) / HalfBlendGauge in quarters
Polygon(MinX, MinY, MaxX, MaxY, IsInside, Quarters) ==
  [MinX |-> MinX, MinY |-> MinY, MaxX |-> MaxX, MaxY |-> MaxY,
   IsInside |-> IsInside, Quarters |-> Quarters]

\* polygons over the whole grid, their vertices on the outline or half a gauge
\* outside; a polygon over the columns X >= 0, its vertices deep inside; a
\* polygon whose bounds cover the grid but which is out of reach, and a polygon
\* beside the grid
Polygons ==
  { Polygon(-BlendVertices, -BlendVertices, BlendVertices - 1, BlendVertices - 1, TRUE, 0),
    Polygon(-BlendVertices, -BlendVertices, BlendVertices - 1, BlendVertices - 1, FALSE, 2),
    Polygon(0, -BlendVertices, BlendVertices - 1, BlendVertices - 1, TRUE, 4),
    Polygon(-BlendVertices, -BlendVertices, BlendVertices - 1, BlendVertices - 1, FALSE, 4),
    Polygon(BlendVertices, BlendVertices, BlendVertices + 1, BlendVertices + 1, TRUE, 0) }

\* lines 706-714: the vertices the two loops visit
Visited(P, NumVerticesForRadius) ==
  {PixelIndex(X, Y, NumVerticesForRadius) :
     X \in Max(-NumVerticesForRadius, P.MinX)..Min(NumVerticesForRadius - 1, P.MaxX),
     Y \in Max(-NumVerticesForRadius, P.MinY)..Min(NumVerticesForRadius - 1, P.MaxY)}

\* line 721
InReach(P) == P.IsInside \/ P.Quarters < 4

\* lines 724 and 727 for a positive BlendGauge:
\* Min(255, RoundToInt(255 * (Quarters / 4 * (+-0.5) + 0.5)))
Weight(P) ==
  LET Eighths == IF P.IsInside THEN 4 + P.Quarters ELSE 4 - P.Quarters
  IN Min(FullWeight, (2 * FullWeight * Eighths + 8) \div 16)

\* lines 730 and 733: RoundToInt((255 - W) / 255 * Previous)
RampDown(W, Previous) == (2 * (FullWeight - W) * Previous + FullWeight) \div (2 * FullWeight)

\* lines 691-737: one polygon P of the layer whose weights are Data
RasterizePolygon(Layers, Data, P, NumVerticesForRadius) ==
  LET cells == IF InReach(P) THEN Visited(P, NumVerticesForRadius) ELSE {}
  IN [Layers |-> [l \in DOMAIN Layers |->
                   [k \in DOMAIN Layers[l] |->
                      IF k \in cells THEN RampDown(Weight(P), Layers[l][k])
                      ELSE Layers[l][k]]],
      WeightData |-> [k \in DOMAIN Data |-> IF k \in cells THEN Weight(P) ELSE Data[k]]]

\* a layer without polygons marked at the cell in the middle of the array
MarkedInTheMiddle(NumCells) ==
  [k \in 1..NumCells |-> IF k = NumCells \div 2 + 1 THEN 1 ELSE 0]

\* a layer without polygons marked at every cell
MarkedEverywhere(NumCells) == [k \in 1..NumCells |-> 1]

\* lines 685 and 749: a layer without polygons; *WeightData is its first cell
Marked(NumCells) == [k \in 1..NumCells |-> IF k = 1 THEN 1 ELSE 0]

NumCells == (2 * Grid.Size) * (2 * Grid.Size)

\* CreateLandscape is entered for a grid of BlendVertices; of BuildSettings.Layers
\* the number of polygons rasterized for each layer is kept
InitBlend ==
  /\ TiledMap = SmallTiles
  /\ pc = "Layers"
  /\ NoJob
  /\ BuildSettings = NoSettings
  /\ Grid = [Size |-> BlendVertices, OutSubsectionSizeQuads |-> 1, Computed |-> TRUE,
             Trapped |-> FALSE]
  /\ OutElevationData = <<>>
  /\ Vertex = NoVertex
  /\ ImportLayers = <<>>
  /\ WeightData = <<>>

BlendUnchanged ==
  UNCHANGED <<Files, FilesToDownload, FilesDownloaded, NumFilesToDownload, idx,
              Progress, NumPendingDownloads, now, UserCancel, ElevationMin,
              ElevationMax, LoadResult, Landscape, CancelIssued, roundVars,
              TiledMap, Grid, OutElevationData, Vertex>>

\* lines 674-678 and 754: the first layer
FirstLayer ==
  /\ pc = "Layers"
  /\ ImportLayers = <<>>
  /\ ImportLayers' = <<[k \in 1..NumCells |-> FullWeight]>>
  /\ BuildSettings' = [BuildSettings EXCEPT !.Layers = Append(@, 0)]
  /\ UNCHANGED <<pc, WeightData>>
  /\ BlendUnchanged

\* lines 685-686, 747-754: a later layer for which GetPolygonWaysForLayer finds
\* no polygon
EmptyLayer ==
  /\ pc = "Layers"
  /\ ImportLayers # <<>>
  /\ Len(ImportLayers) < MaxLayers
  /\ ImportLayers' = Append(ImportLayers, Marked(NumCells))
  /\ BuildSettings' = [BuildSettings EXCEPT !.Layers = Append(@, 0)]
  /\ UNCHANGED <<pc, WeightData>>
  /\ BlendUnchanged

\* lines 685-686: a later layer for which GetPolygonWaysForLayer finds polygons
BeginLayer ==
  /\ pc = "Layers"
  /\ ImportLayers # <<>>
  /\ Len(ImportLayers) < MaxLayers
  /\ WeightData' = [k \in 1..NumCells |-> 0]
  /\ BuildSettings' = [BuildSettings EXCEPT !.Layers = Append(@, 0)]
  /\ pc' = "Polygons"
  /\ UNCHANGED ImportLayers
  /\ BlendUnchanged

\* lines 689-745: the next polygon of the layer
NextPolygon(P) ==
  /\ pc = "Polygons"
  /\ BuildSettings.Layers[Len(BuildSettings.Layers)] < MaxPolygons
  /\ LET r == RasterizePolygon(ImportLayers, WeightData, P, Grid.Size)
     IN /\ ImportLayers' = r.Layers
        /\ WeightData' = r.WeightData
  /\ BuildSettings' = [BuildSettings EXCEPT !.Layers[Len(BuildSettings.Layers)] = @ + 1]
  /\ UNCHANGED pc
  /\ BlendUnchanged

\* line 754, after the last polygon of the layer
EndLayer ==
  /\ pc = "Polygons"
  /\ BuildSettings.Layers[Len(BuildSettings.Layers)] > 0
  /\ ImportLayers' = Append(ImportLayers, WeightData)
  /\ WeightData' = <<>>
  /\ pc' = "Layers"
  /\ UNCHANGED BuildSettings
  /\ BlendUnchanged

NextBlend ==
  \/ FirstLayer
  \/ EmptyLayer
  \/ BeginLayer
  \/ \E P \in Polygons : NextPolygon(P)
  \/ EndLayer

SpecBlend == InitBlend /\ [][NextBlend]_vars

----------------------------------------------------------------------------
(* Vocabulary of the properties *)

DownloadingTiles == {i \in DOMAIN Files : State(i) = "Downloading"}

PendingTiles == Range(FilesToDownload)

\* this step is the range-for's iteration on tile i (Tick and what follows it)
Ticked(i) ==
  /\ pc = "For"
  /\ Current(FilesToDownload, idx) = i
  /\ pc' # "For" \/ idx' # idx

\* this step stays inside one job
SameJob == pc # "Idle" /\ pc' # "Idle"

----------------------------------------------------------------------------
\* C1: at every point of LoadElevationData at most MaxNumPendingDownloads (10)
\* tiles are Downloading, and a Tick of a NotStarted tile leaves it NotStarted
\* while 10 tiles are Downloading.
C1_BoundedPool ==
  /\ [](Cardinality(DownloadingTiles) <= MaxNumPendingDownloads)
  /\ [][\A i \in DOMAIN Files :
          (Ticked(i) /\ State(i) = "NotStarted"
           /\ Cardinality(DownloadingTiles) >= MaxNumPendingDownloads)
          => Files'[i] = Files[i]]_vars

\* ten tiles are Downloading and the eleventh was ticked and is still NotStarted
C1_Witness ==
  /\ pc = "EndFor"
  /\ Cardinality(DownloadingTiles) = MaxNumPendingDownloads
  /\ idx = Len(FilesToDownload)
  /\ State(FilesToDownload[idx]) = "NotStarted"

\* C2: when a tile reaches Failed during LoadElevationData, the same loop
\* iteration issues CancelRequest to every tile still pending and empties the
\* pending set; LoadElevationData then returns false, and no tile becomes Decoded
\* once a tile has failed.
C2_FailFast ==
  /\ [][\A i \in DOMAIN Files :
          (SameJob /\ ~Files[i].Failed /\ Files'[i].Failed /\ i \notin CancelIssued')
          => /\ FilesToDownload' = <<>>
             /\ \A j \in PendingTiles \ {i} :
                  /\ j \in CancelIssued'
                  /\ Files'[j].Failed
                  /\ Files[j].HttpRequest # "Null" => Files'[j].RequestCancelled]_vars
  /\ []((\E i \in DOMAIN Files : State(i) = "Failed")
        => /\ FilesToDownload = <<>>
           /\ pc \in {"EndFor", "While", "AfterWhile", "LoadReturned"}
           /\ pc = "LoadReturned" => ~LoadResult)
  /\ [][(SameJob /\ \E i \in DOMAIN Files : State(i) = "Failed")
        => \A j \in DOMAIN Files : State(j)' = "Decoded" => State(j) = "Decoded"]_vars

\* a tile failed, a tile in flight was cancelled, and the job returned false
C2_Witness ==
  /\ pc = "LoadReturned"
  /\ ~LoadResult
  /\ \E i, j \in DOMAIN Files :
       /\ State(i) = "Failed"
       /\ State(j) = "Cancelled"
       /\ Files[j].RequestCancelled

\* C3 as stated: in a job in which a tile other than the first fails, the job
\* reports failure and every other tile ends Cancelled.
C3_AllOthersCancelled ==
  (pc = "LoadReturned" /\ \E k \in DOMAIN Files : k > 1 /\ State(k) = "Failed")
  => /\ ~LoadResult
     /\ \A k \in DOMAIN Files : State(k) = "Failed" =>
          \A j \in DOMAIN Files \ {k} : State(j) = "Cancelled"

\* C3 amended: in a job in which a tile other than the first fails, the job
\* reports failure and every other tile ends Cancelled, except the tiles that
\* were already Decoded and moved to FilesDownloaded, which stay Decoded.
C3_OthersCancelledOrDecoded ==
  (pc = "LoadReturned" /\ \E k \in DOMAIN Files : k > 1 /\ State(k) = "Failed")
  => /\ ~LoadResult
     /\ \A k \in DOMAIN Files : State(k) = "Failed" =>
          \A j \in DOMAIN Files \ {k} :
            \/ State(j) = "Cancelled"
            \/ State(j) = "Decoded" /\ j \in Range(FilesDownloaded)

\* the second tile failed after the first was decoded
C3_Witness ==
  /\ pc = "LoadReturned"
  /\ Len(Files) >= 2
  /\ State(2) = "Failed"
  /\ State(1) = "Decoded"

\* C4: when the loop is left by the user's cancel (the only exit with tiles still
\* pending), every tile still pending ends Cancelled with its request aborted, and
\* LoadElevationData returns false.
C4_UserCancelCancelsPending ==
  (pc = "LoadReturned" /\ FilesToDownload # <<>>)
  => /\ ~LoadResult
     /\ \A j \in PendingTiles :
          /\ State(j) = "Cancelled"
          /\ Files[j].HttpRequest # "Null" => Files[j].RequestCancelled

\* C5: LoadElevationData returns true only if every tile of the job is Decoded;
\* BuildLandscape is in ReprojectData or CreateLandscape only after
\* LoadElevationData returned true; and it returns a landscape only from
\* CreateLandscape, never after a tile failed or the loop was left by a cancel.
C5_AllOrNothing ==
  /\ []((pc \in {"LoadReturned", "ReprojectData", "CreateLandscape"} /\ LoadResult)
        => /\ Len(Files) = NumFilesToDownload
           /\ FilesToDownload = <<>>
           /\ \A i \in DOMAIN Files : State(i) = "Decoded" /\ i \in Range(FilesDownloaded))
  /\ [](pc \in {"ReprojectData", "CreateLandscape"} => LoadResult)
  /\ [][(pc # "Idle" /\ pc' = "Idle")
        => /\ Landscape' = "landscape" => (pc = "CreateLandscape" /\ LoadResult)
           /\ ((\E i \in DOMAIN Files : Files[i].Failed) \/ FilesToDownload # <<>>)
                => Landscape' = "nullptr"]_vars

\* one tile of the job was decoded, another failed, and BuildLandscape is about to
\* return without a landscape
C5_Witness ==
  /\ pc = "LoadReturned"
  /\ ~LoadResult
  /\ \E i, j \in DOMAIN Files : State(i) = "Decoded" /\ State(j) = "Failed"

Finished == {"Decoded", "Failed", "Cancelled"}

Rank(st) == IF st = "NotStarted" THEN 0 ELSE IF st = "Downloading" THEN 1 ELSE 2

\* C6: HasFinished() holds exactly in the states Decoded, Failed and Cancelled; no
\* tile is both succeeded and failed; and within a job no step moves a tile to an
\* earlier state, changes a finished tile, or issues a second request for a tile.
C6_MonotonicStates ==
  /\ [](\A i \in DOMAIN Files :
          /\ HasFinished(Files[i]) <=> State(i) \in Finished
          /\ ~(Files[i].WasDownloadSuccessful /\ Files[i].Failed)
          /\ State(i) = "NotStarted" => Files[i].HttpRequest = "Null")
  /\ [][SameJob =>
          \A i \in DOMAIN Files :
            /\ Rank(State(i)') >= Rank(State(i))
            /\ State(i) \in Finished => Files'[i] = Files[i] /\ State(i)' = State(i)
            /\ Files[i].WasInitialized => Files'[i].WasInitialized
            /\ Files[i].HttpRequest # "Null" =>
                 /\ Files'[i].HttpRequest # "Null"
                 /\ Files'[i].StartTime = Files[i].StartTime]_vars

\* a tile was decoded from a download and a later tile of the job failed on its
\* response
C6_Witness ==
  \E i, j \in DOMAIN Files :
    /\ State(i) = "Decoded" /\ Files[i].Saved
    /\ State(j) = "Failed" /\ Files[j].Response.Present

\* C7: every tile in FilesDownloaded has an elevation array of
\* TileWidth * TileHeight decoded samples.
C7_ResidentTilesPopulated ==
  \A i \in Range(FilesDownloaded) : Len(Files[i].Elevation) = TileWidth * TileHeight

\* the image's shape or format is not the tile source's
Mismatch(img) ==
  /\ img.SetCompressed
  /\ \/ img.Width # TileWidth
     \/ img.Height # TileHeight
     \/ img.Format # "RGBA"
     \/ img.BitDepth # 8

\* C8: on an image of the wrong width, height or format UnpackElevation returns
\* false and leaves the tile's elevation array and min/max as they were, and the
\* tile whose response is such an image becomes Failed in the Tick that reads it
\* and is never Decoded.
C8_MismatchFails ==
  /\ [](\A i \in DOMAIN Files : \A img \in Images :
          Mismatch(img) => UnpackElevation(Files[i], img) = [ret |-> FALSE, file |-> Files[i]])
  /\ [](\A i \in DOMAIN Files :
          Mismatch(Files[i].Response) =>
            /\ State(i) = "Failed"
            /\ Files[i].Elevation = <<>>
            /\ Files[i].ElevationMin = FloatMax
            /\ Files[i].ElevationMax = FloatLowest)
  /\ [][\A i \in DOMAIN Files :
          (Ticked(i) /\ Files[i].HttpRequest = "Succeeded" /\ Mismatch(Files'[i].Response))
          => /\ State(i)' = "Failed"
             /\ Files'[i].Elevation = Files[i].Elevation
             /\ Files'[i].ElevationMin = Files[i].ElevationMin
             /\ Files'[i].ElevationMax = Files[i].ElevationMax]_vars

\* a download was answered with an image one row too high and its tile failed
C8_Witness ==
  \E i \in DOMAIN Files :
    /\ Files[i].Response.SetCompressed
    /\ Files[i].Response.Height = TileHeight + 1
    /\ Files[i].Response.Width = TileWidth
    /\ Files[i].Failed
    /\ Files[i].HttpRequest = "Succeeded"

\* C9: a tile that is Downloading and whose elapsed time since its own
\* initialization, as its last Tick measured it, is more than 10 seconds becomes
\* Failed in its next Tick, with its request cancelled and its slot released.
C9_TimeoutFails ==
  [][\A i \in DOMAIN Files :
       (Ticked(i) /\ State(i) = "Downloading" /\ Files[i].TimeSpan > TimeoutSeconds)
       => /\ State(i)' = "Failed"
          /\ Files'[i].RequestCancelled
          /\ NumPendingDownloads' < NumPendingDownloads]_vars

\* C10: LoadElevationData terminates.  While the loop runs with tiles pending and
\* no cancel from the user, some pending tile is in flight (it finishes or times
\* out) or a download slot is free for a tile that is NotStarted.
C10_LoopCanProgress ==
  (Running /\ FilesToDownload # <<>> /\ ~UserCancel)
  => \/ \E i \in PendingTiles : State(i) = "Downloading"
     \/ NumPendingDownloads < MaxNumPendingDownloads

Decodes(img) ==
  /\ img.Present
  /\ img.SetCompressed
  /\ img.Width = TileWidth /\ img.Height = TileHeight
  /\ img.Format = "RGBA" /\ img.BitDepth = 8
  /\ img.GetRaw

\* C20: a tile whose downloaded bytes decode and validate ends Decoded (the result
\* of the cache write is not looked at); only bytes that decode and validate are
\* written to the cache; and a tile served from the cache does not write it.
C20_CacheWrite ==
  \A i \in DOMAIN Files :
    /\ Decodes(Files[i].Response) => State(i) = "Decoded"
    /\ Files[i].Saved => Decodes(Files[i].Response)
    /\ (Files[i].WasDownloadSuccessful /\ Files[i].HttpRequest = "Null") => ~Files[i].Saved

\* C15 as stated: every valid pixel (R, G, B) of a decoded download is stored as
\* R*256 + G + B/256 - 32768, and the pixel (128, 0, 0) is stored as -256.
C15_SeaLevelIsMinus256 ==
  \A i \in DOMAIN Files :
    (Files[i].WasDownloadSuccessful /\ Decodes(Files[i].Response)) =>
      \A k \in DOMAIN Files[i].Response.Pixels :
        LET p == Files[i].Response.Pixels[k]
            v == p[1] * 65536 + p[2] * 256 + p[3]
        IN /\ (v > 0 /\ v < 41768 * 256) =>
                Files[i].Elevation[k] = v - 32768 * 256
           /\ p = <<128, 0, 0>> => Files[i].Elevation[k] = (-256) * 256

\* C15 amended: every valid pixel (R, G, B) of a decoded download is stored as
\* R*256 + G + B/256 - 32768, and the pixel (128, 0, 0) is stored as 0.
C15_DecodeFormula ==
  \A i \in DOMAIN Files :
    (Files[i].WasDownloadSuccessful /\ Decodes(Files[i].Response)) =>
      \A k \in DOMAIN Files[i].Response.Pixels :
        LET p == Files[i].Response.Pixels[k]
            v == p[1] * 65536 + p[2] * 256 + p[3]
        IN /\ (v > 0 /\ v < 41768 * 256) =>
                Files[i].Elevation[k] = v - 32768 * 256
           /\ p = <<128, 0, 0>> => Files[i].Elevation[k] = 0

\* a tile decoded from a download that holds the pixel (128, 0, 0) next to the
\* highest valid pixel
C15_Witness ==
  \E i \in DOMAIN Files :
    /\ State(i) = "Decoded"
    /\ Files[i].Response.Pixels[1] = <<128, 0, 0>>
    /\ Files[i].Response.Pixels[2] = <<163, 39, 255>>
    /\ Files[i].Elevation[1] = 0

\* the valid samples of the tiles in FilesDownloaded, read off the pixels the
\* tiles were decoded from
ValidOf(i) ==
  {p[1] * 65536 + p[2] * 256 + p[3] - 32768 * 256 :
     p \in {q \in Range(Files[i].Response.Pixels) :
              /\ q[1] * 65536 + q[2] * 256 + q[3] > 0
              /\ q[1] * 65536 + q[2] * 256 + q[3] < 41768 * 256}}

AllValid == UNION {ValidOf(i) : i \in Range(FilesDownloaded)}

\* C16: when LoadElevationData has succeeded, the global ElevationMin and
\* ElevationMax are the least and the greatest valid sample of the tiles in
\* FilesDownloaded (the initial limits if there is no valid sample), each tile's
\* min/max are those of its own valid samples, and every pixel, valid or not, has
\* its entry in the tile's array.
C16_MinMaxOverValid ==
  (pc = "LoadReturned" /\ LoadResult) =>
    /\ \A i \in Range(FilesDownloaded) :
         /\ Len(Files[i].Elevation) = Len(Files[i].Response.Pixels)
         /\ \A v \in ValidOf(i) : Files[i].ElevationMin <= v /\ v <= Files[i].ElevationMax
         /\ ValidOf(i) # {} => {Files[i].ElevationMin, Files[i].ElevationMax} \subseteq ValidOf(i)
         /\ ValidOf(i) = {} => /\ Files[i].ElevationMin = FloatMax
                               /\ Files[i].ElevationMax = FloatLowest
    /\ \A v \in AllValid : ElevationMin <= v /\ v <= ElevationMax
    /\ AllValid # {} => {ElevationMin, ElevationMax} \subseteq AllValid
    /\ AllValid = {} => ElevationMin = FloatMax /\ ElevationMax = FloatLowest

\* a job of two tiles succeeded; one tile holds an invalid sample beside a valid
\* one, the other holds the job's lowest sample
C16_Witness ==
  /\ pc = "LoadReturned"
  /\ LoadResult
  /\ Len(FilesDownloaded) = 2
  /\ \E i, j \in Range(FilesDownloaded) :
       /\ Files[i].Response.Pixels[1] = <<128, 0, 0>>
       /\ Files[i].Response.Pixels[2] = <<163, 40, 0>>
       /\ Files[i].Elevation[2] = 41768 * 256
       /\ Files[j].Response.Pixels[1] = <<0, 0, 1>>
       /\ ElevationMin = 1 - 32768 * 256
       /\ ElevationMax = 0

\* C14: for every positive Radius and QuadSize GetNumVerticesForRadius returns
\* without dividing by zero, with a positive sub-section size and a vertex count
\* that is a multiple of it and at least round(Radius / QuadSize).
C14_PositiveSubsectionSize ==
  pc = "GridReturned" =>
    /\ ~Grid.Trapped
    /\ Grid.OutSubsectionSizeQuads > 0
    /\ Grid.Size % Grid.OutSubsectionSizeQuads = 0
    /\ Grid.Size * BuildSettings.QuadSize * 2 + BuildSettings.QuadSize
         > 2 * BuildSettings.Radius

\* the last cell ReprojectData wrote
LastCell == OutElevationData[Len(OutElevationData)]

\* C13: quantization maps a sample equal to the global minimum to 0 and a sample
\* equal to the global maximum to 65535 when max > min; when max = min the cell
\* gets a defined value that no division by zero went into.
C13_QuantizeEnds ==
  (OutElevationData # <<>> /\ Vertex.Sampled) =>
    LET s == SampleElevationLanczos(Files[Vertex.TileXY].Elevation, TileWidth,
                                    Vertex.PixelXY)
    IN /\ (ElevationMax > ElevationMin
           /\ s.ElevationValue = ElevationMin * s.LanczosWeightSum) => LastCell = 0
       /\ (ElevationMax > ElevationMin
           /\ s.ElevationValue = ElevationMax * s.LanczosWeightSum) => LastCell = 65535
       /\ ElevationMax = ElevationMin => Vertex.Defined

\* the pixel the tile's entry k was decoded from is a no-data pixel
NoData(tile, k) ==
  LET p == Files[tile].Response.Pixels[k]
      v == p[1] * 65536 + p[2] * 256 + p[3]
  IN ~(v > 0 /\ v < 41768 * 256)

\* C17: no entry of a tile's array that holds a no-data sample is among the
\* entries that went into the sample of an output cell.
C17_NoDataNeverSampled ==
  (OutElevationData # <<>> /\ Vertex.Sampled) =>
    \A k \in DOMAIN Taps :
      ~NoData(Vertex.TileXY, TapIndex(TileWidth, Vertex.PixelXY, Taps[k]))

\* within 2 pixels of an edge: fewer than 2 pixels lie between the location and
\* the first or the last column, or the first or the last row
NearEdge(PixelXY) ==
  \/ PixelXY[1] < 2
  \/ PixelXY[2] < 2
  \/ PixelXY[1] > TiledMap.TileWidth - 1 - 2
  \/ PixelXY[2] > TiledMap.TileHeight - 1 - 2

\* C18 as stated: a cell is given the sentinel 32768 without sampling exactly
\* when its projection is invalid or its pixel location is within 2 pixels of an
\* edge of its tile; every other cell is given its quantized Lanczos sample.
C18_SentinelWithinTwoPixels ==
  OutElevationData # <<>> =>
    IF ~Vertex.Valid \/ NearEdge(Vertex.PixelXY)
    THEN ~Vertex.Sampled /\ LastCell = 32768
    ELSE /\ Vertex.Sampled
         /\ \E q \in Quantize(SampleElevationLanczos(Files[Vertex.TileXY].Elevation,
                                                      TiledMap.TileWidth, Vertex.PixelXY),
                               ElevationMin, ElevationMax) : LastCell = q.Value

\* C18 amended: a cell is given the sentinel 32768 without sampling exactly when
\* its projection is invalid or its pixel location (X, Y) has X < 2, Y < 2,
\* X >= TileWidth - 3 or Y >= TileHeight - 3, that is within 2 pixels of the low
\* edges or within 3 pixels of the high edges; every other cell is given its
\* quantized Lanczos sample.
C18_SentinelOutsideGuard ==
  OutElevationData # <<>> =>
    IF \/ ~Vertex.Valid
       \/ Vertex.PixelXY[1] < 2
       \/ Vertex.PixelXY[2] < 2
       \/ Vertex.PixelXY[1] >= TiledMap.TileWidth - 3
       \/ Vertex.PixelXY[2] >= TiledMap.TileHeight - 3
    THEN ~Vertex.Sampled /\ LastCell = 32768
    ELSE /\ Vertex.Sampled
         /\ \E q \in Quantize(SampleElevationLanczos(Files[Vertex.TileXY].Elevation,
                                                      TiledMap.TileWidth, Vertex.PixelXY),
                               ElevationMin, ElevationMax) : LastCell = q.Value

\* a valid vertex three pixels before the last column was given the sentinel
\* after a vertex at (2, 2) was given the quantized sample 65535
C18_Witness ==
  /\ Len(OutElevationData) = 2
  /\ OutElevationData[1] = 65535
  /\ Vertex.Valid
  /\ Vertex.PixelXY = <<TiledMap.TileWidth - 3, 2>>
  /\ ~Vertex.Sampled
  /\ LastCell = 32768

RECURSIVE SumAt(_, _)
SumAt(Layers, k) ==
  IF Layers = <<>> THEN 0 ELSE Head(Layers)[k] + SumAt(Tail(Layers), k)

\* C11: after the layers are rasterized, at every cell the weights of all layers
\* add up to 255, give or take 1.
C11_WeightsSumTo255 ==
  (pc = "Layers" /\ ImportLayers # <<>>) =>
    \A k \in DOMAIN ImportLayers[1] :
      /\ SumAt(ImportLayers, k) >= 255 - 1
      /\ SumAt(ImportLayers, k) <= 255 + 1

\* no layer rasterized so far had a polygon
NoPolygons == \A l \in DOMAIN BuildSettings.Layers : BuildSettings.Layers[l] = 0

\* C12 as stated: in a job where no layer after the first has a polygon, the first
\* layer's weight is 255 at every cell and every other layer's weight is 0 at
\* every cell.
C12_OthersZeroEverywhere ==
  (pc = "Layers" /\ ImportLayers # <<>> /\ NoPolygons) =>
    \A k \in DOMAIN ImportLayers[1] :
      /\ ImportLayers[1][k] = 255
      /\ \A l \in DOMAIN ImportLayers : l > 1 => ImportLayers[l][k] = 0

\* C12 amended: in a job where no layer after the first has a polygon, the first
\* layer's weight is 255 at every cell and every other layer's weight is 0 at
\* every cell but the first cell of its array (the corner X = Y =
\* -NumVerticesForRadius), where it is the marker 1.
C12_OthersZeroButMarker ==
  (pc = "Layers" /\ ImportLayers # <<>> /\ NoPolygons) =>
    \A k \in DOMAIN ImportLayers[1] :
      /\ ImportLayers[1][k] = 255
      /\ \A l \in DOMAIN ImportLayers :
           l > 1 => ImportLayers[l][k] = (IF k = 1 THEN 1 ELSE 0)

\* three layers were added, none of them with a polygon
C12_Witness ==
  /\ pc = "Layers"
  /\ Len(ImportLayers) = 3
  /\ NoPolygons
  /\ ImportLayers[3][1] = 1

\* the range-for is at a tile that was never initialized and a download slot is free
AtFirstAdvance ==
  /\ pc = "For"
  /\ ~Files[Current(FilesToDownload, idx)].WasInitialized
  /\ NumPendingDownloads < MaxNumPendingDownloads

\* C21: on a tile's first advance, cache bytes that decode and validate make the
\* tile Decoded with no request issued and no download slot taken; with no cache
\* entry, or one whose bytes fail decode or validation, the tile issues a request
\* and is Downloading with one slot taken, or is Failed without a slot when the
\* request could not be started.
C21_FirstAdvance ==
  AtFirstAdvance =>
    \A cached \in CacheContents, started \in BOOLEAN :
      LET r == Tick(Files[Current(FilesToDownload, idx)], NumPendingDownloads, now,
                    cached, started, NullResponse)
      IN IF Decodes(cached)
         THEN /\ r.file.WasDownloadSuccessful
              /\ r.file.HttpRequest = "Null"
              /\ r.num = NumPendingDownloads
         ELSE IF started
         THEN /\ ~HasFinished(r.file)
              /\ r.file.HttpRequest = "Processing"
              /\ r.num = NumPendingDownloads + 1
         ELSE /\ r.file.Failed /\ ~r.file.WasDownloadSuccessful
              /\ r.file.HttpRequest = "NotStarted"
              /\ r.num = NumPendingDownloads

\* this step adds a layer for which no polygon was found
EmptyLayerAdded ==
  /\ pc = "Layers" /\ pc' = "Layers"
  /\ ImportLayers # <<>>
  /\ Len(ImportLayers') = Len(ImportLayers) + 1

\* the cells of a weight map that are not zero
NonZero(Data) == {k \in DOMAIN Data : Data[k] # 0}

\* cell k of a weight map lies on none of the four edges of the grid
Interior(k) ==
  LET Size == 2 * Grid.Size
      X == (k - 1) % Size
      Y == (k - 1) \div Size
  IN X > 0 /\ X < Size - 1 /\ Y > 0 /\ Y < Size - 1

\* C22 as stated: for a layer after the first with no polygon, CreateLandscape
\* sets exactly one cell of that layer to a nonzero marker, that cell is an
\* interior cell of the grid, and no weight of any other layer is changed.
C22_MarkerInterior ==
  [][EmptyLayerAdded =>
       LET Data == ImportLayers'[Len(ImportLayers')] IN
       /\ Cardinality(NonZero(Data)) = 1
       /\ \A k \in NonZero(Data) : Interior(k)
       /\ \A l \in DOMAIN ImportLayers : ImportLayers'[l] = ImportLayers[l]]_vars

\* C22 amended: for a layer after the first with no polygon, CreateLandscape sets
\* exactly one cell of that layer to the marker 1, that cell is the first cell of
\* the layer's array (the corner X = Y = -NumVerticesForRadius of the grid), and no
\* weight of any other layer is changed.
C22_MarkerFirstCell ==
  [][EmptyLayerAdded =>
       LET Data == ImportLayers'[Len(ImportLayers')] IN
       /\ NonZero(Data) = {1}
       /\ Data[1] = 1
       /\ ~Interior(1)
       /\ \A l \in DOMAIN ImportLayers : ImportLayers'[l] = ImportLayers[l]]_vars

\* a layer without polygons was added after a layer whose polygon had given the
\* first cell a weight and ramped the first layer down there
C22_Witness ==
  /\ pc = "Layers"
  /\ BuildSettings.Layers = <<0, 1, 0>>
  /\ Len(ImportLayers) = 3
  /\ ImportLayers[1][1] = 127
  /\ ImportLayers[2][1] = 128
  /\ ImportLayers[3][1] = 1
  /\ \E k \in DOMAIN ImportLayers[3] : Interior(k)

\* C23: at every step of a job NumPendingDownloads is the number of the job's
\* tiles that are Downloading, and it is never negative; a step of the job changes
\* the counter by as much as it changes the number of Downloading tiles (a started
\* request counts up once and down once, a tile whose request was not started or
\* that was never initialized does not count down).
C23_CounterIsDownloading ==
  /\ [](NumPendingDownloads >= 0)
  /\ [](pc # "Idle" => NumPendingDownloads = Cardinality(DownloadingTiles))
  /\ [][SameJob =>
          NumPendingDownloads' - NumPendingDownloads
            = Cardinality(DownloadingTiles') - Cardinality(DownloadingTiles)]_vars

\* C24: whenever LoadElevationData returns, by success, by a tile's failure or by
\* user cancel, NumPendingDownloads is 0, the value it had before the job, so no
\* download slot of a later job is taken by an earlier one.
C24_CounterRestored == pc = "LoadReturned" => NumPendingDownloads = 0

\* the column and the row of the tile that a tap at PixelXY reads
TapColumn(PixelXY, Tap) == PixelXY[1] + Tap[1]
TapRow(PixelXY, Tap) == PixelXY[2] + Tap[2]

\* C25: whenever ReprojectData calls SampleElevationLanczos, each of the 13 taps
\* reads a column in [0, TileWidth) and a row in [0, TileHeight): its index
\* DataWidth * (y + dy) + (x + dx) lies inside the tile's array of
\* TileWidth * TileHeight samples, and in the row the tap names (no tap wraps
\* into a neighbouring row).
C25_TapsInsideTile ==
  Vertex.Sampled =>
    \A k \in DOMAIN Taps :
      LET Index == TapIndex(TileWidth, Vertex.PixelXY, Taps[k]) - 1 IN
      /\ TapColumn(Vertex.PixelXY, Taps[k]) \in 0..(TileWidth - 1)
      /\ TapRow(Vertex.PixelXY, Taps[k]) \in 0..(TileHeight - 1)
      /\ Index \in 0..(TileWidth * TileHeight - 1)
      /\ Index + 1 \in DOMAIN Files[Vertex.TileXY].Elevation
      /\ Index \div TileWidth = TapRow(Vertex.PixelXY, Taps[k])
      /\ Index % TileWidth = TapColumn(Vertex.PixelXY, Taps[k])

\* a vertex was sampled at the least location the guard lets through, where the
\* taps reach column 0 and row 0 of the tile
C25_Witness ==
  /\ Vertex.Sampled
  /\ Vertex.PixelXY = <<2, 2>>
  /\ Len(OutElevationData) > 0
  /\ \E k \in DOMAIN Taps : TapColumn(Vertex.PixelXY, Taps[k]) = 0
  /\ \E k \in DOMAIN Taps : TapRow(Vertex.PixelXY, Taps[k]) = 0

====
